---- MODULE Spec2Model ----
(***************************************************************************)
(* The usort hints of src/vm/hints/usort.rs: usort_enter_scope,            *)
(* usort_body, verify_usort, verify_multiplicity_assert and                *)
(* verify_multiplicity_body, run one after the other by the interpreter   *)
(* against the execution scopes, the VM memory and the named variables     *)
(* (ids) of each hint call.                                                *)
(***************************************************************************)
EXTENDS Integers, Sequences, FiniteSets, TLC

\* Bounds of the model.
MaxVal == 2      \* input cells hold the values 0..MaxVal
MaxLen == 3      \* the input array has at most MaxLen cells
MaxCap == 1      \* a configured usort_max_size is in 0..MaxCap
MaxDepth == 2    \* at most MaxDepth execution-scope frames

VARIABLES
    scopes,   \* ExecutionScopes: a stack of frames, each a map name -> PyValueType
    memory,   \* VM memory: memory[s] is the run of written cells of segment s
    ids,      \* the cells the names of the latest hint call resolve to, before the call
    written,  \* the named outputs written so far (name -> value)
    err,      \* the Err(..) that ended the run, or NoError
    hint,     \* the hint executed last
    built,    \* usort_body has returned Ok(())
    walked,   \* one entry per Ok(()) of verify_multiplicity_body: value, position, gap
    rt        \* monitor of the caller's loop over ids.output / ids.multiplicities

vars == <<scopes, memory, ids, written, err, hint, built, walked, rt>>

(***************************************************************************)
(* Values                                                                  *)
(***************************************************************************)
Values == 0..MaxVal

BSeq(S, n) == UNION {[1..k -> S] : k \in 0..n}

\* A BigInt as read for input_len: hi * 2^64 + lo.  The lengths a caller passes for
\* an array of len cells: len, one more (the scan meets a cell never written), 2^64.
BigIntsNear(len) == {[hi |-> 0, lo |-> len], [hi |-> 0, lo |-> len + 1], [hi |-> 1, lo |-> 0]}

\* num_traits::ToPrimitive::to_u64 on a non-negative BigInt.
to_u64(n) == IF n.hi = 0 THEN [some |-> TRUE, v |-> n.lo] ELSE [some |-> FALSE]

\* Memory cells.
Unset == [kind |-> "Unset"]
IntCell(v) == [kind |-> "Int", v |-> v]
RelCell(s, o) == [kind |-> "Rel", seg |-> s, off |-> o]

\* PyValueType variants.
PyNone == [kind |-> "None"]
PyU64(n) == [kind |-> "U64", v |-> n]
PyDictBigIntListU64(d) == [kind |-> "DictBigIntListU64", v |-> d]
PyListU64(l) == [kind |-> "ListU64", v |-> l]
PyBigInt(i) == [kind |-> "BigInt", v |-> i]

\* VirtualMachineError variants.
NoError == [kind |-> "None"]
UsortOutOfRange(cap, len) == [kind |-> "UsortOutOfRange", cap |-> cap, len |-> len]
BigintToUsizeFail == [kind |-> "BigintToUsizeFail"]
UnexpectedPositionsDictFail == [kind |-> "UnexpectedPositionsDictFail"]
PositionsLengthNotZero == [kind |-> "PositionsLengthNotZero"]
CouldntPopPositions == [kind |-> "CouldntPopPositions"]
MemoryError == [kind |-> "MemoryError"]
VariableNotInScopeError(name) == [kind |-> "VariableNotInScopeError", name |-> name]

(***************************************************************************)
(* Execution scopes (ExecutionScopesProxy)                                 *)
(***************************************************************************)
EmptyFrame == [k \in {} |-> PyNone]

Local(sc) == sc[Len(sc)]

\* get_u64 / get_int / get_listu64_ref / get_mut_dict_int_list_u64_ref:
\* the variable of the current frame, if it is there and of that kind.
get_typed(sc, name, kind) ==
    IF name \in DOMAIN Local(sc) /\ Local(sc)[name].kind = kind
    THEN [ok |-> TRUE, v |-> Local(sc)[name].v]
    ELSE [ok |-> FALSE]

get_u64(sc, name) == get_typed(sc, name, "U64")

\* assign_or_update_variable / insert_int: set the variable in the current frame.
assign_or_update_variable(sc, name, val) ==
    [sc EXCEPT ![Len(sc)] =
        [k \in (DOMAIN Local(sc)) \cup {name} |-> IF k = name THEN val ELSE Local(sc)[k]]]

\* enter_scope: push a frame.
enter_scope(sc, frame) == Append(sc, frame)

(***************************************************************************)
(* Memory and named variables                                              *)
(***************************************************************************)
InputSegment == 1

\* memory.get_integer(&(ptr + i)): the cell must be a written integer.
get_integer(mem, ptr, i) ==
    IF ptr.seg \in 1..Len(mem) /\ ptr.off + i + 1 \in 1..Len(mem[ptr.seg])
    THEN [ok |-> TRUE, v |-> mem[ptr.seg][ptr.off + i + 1]]
    ELSE [ok |-> FALSE]

\* segments.add: a new empty segment; its base.
segments_add(mem) == [mem |-> Append(mem, <<>>), base |-> RelCell(Len(mem) + 1, 0)]

\* memory.insert_value at every offset 0..Len(s)-1 of a segment nothing was written to.
insert_all(mem, base, s) == [mem EXCEPT ![base.seg] = s]

\* insert_value_from_var_name: the write is refused when the cell the name
\* resolves to already holds another value.
insertable(cell, val) == cell.kind = "Unset" \/ cell = val

NoIds == [input |-> Unset, input_len |-> Unset, output_len |-> Unset, output |-> Unset,
          multiplicities |-> Unset, value |-> Unset, next_item_index |-> Unset]

NoWritten == [output_len |-> Unset, output |-> Unset, multiplicities |-> Unset,
              next_item_index |-> Unset]

\* The cell a named output resolves to: not written yet, or already holding 0.
DestCells == {Unset, IntCell(0)}

(***************************************************************************)
(* usort_body                                                              *)
(***************************************************************************)
\* Faulty variant: the cap compared with >= instead of >.
size_exceeded_inclusive(max_size, input_len_u64) ==
    max_size.ok /\ input_len_u64 >= max_size.v

\* if let Ok(usort_max_size) = usort_max_size { if input_len_u64 > usort_max_size ..
size_exceeded(max_size, input_len_u64) == max_size.ok /\ input_len_u64 > max_size.v

\* <[T]>::binary_search on the slice s[lo+1..hi]: found at index, or the index to insert at.
RECURSIVE binary_search_in(_, _, _, _)
binary_search_in(s, val, lo, hi) ==
    IF lo >= hi THEN [found |-> FALSE, index |-> lo]
    ELSE LET mid == lo + ((hi - lo) \div 2) IN
         IF s[mid + 1] = val THEN [found |-> TRUE, index |-> mid]
         ELSE IF s[mid + 1] < val THEN binary_search_in(s, val, mid + 1, hi)
         ELSE binary_search_in(s, val, lo, mid)

binary_search(s, val) == binary_search_in(s, val, 0, Len(s))

\* Vec::insert(index, val)
vec_insert(s, index, val) == SubSeq(s, 1, index) \o <<val>> \o SubSeq(s, index + 1, Len(s))

\* Faulty variant: the value inserted whether or not binary_search found it.
insert_always(output, val) == vec_insert(output, binary_search(output, val).index, val)

\* if let Err(output_index) = output.binary_search(val) { output.insert(output_index, val) }
insert_sorted(output, val) ==
    LET r == binary_search(output, val) IN
    IF r.found THEN output ELSE vec_insert(output, r.index, val)

\* Faulty variant: the index put at the front of the position list.
push_position_front(dict, val, i) ==
    [k \in (DOMAIN dict) \cup {val} |->
        IF k = val THEN (IF val \in DOMAIN dict THEN <<i>> \o dict[val] ELSE <<i>>)
        ELSE dict[k]]

\* positions_dict.entry(val).or_insert(Vec::new()).push(i)
push_position(dict, val, i) ==
    [k \in (DOMAIN dict) \cup {val} |->
        IF k = val THEN (IF val \in DOMAIN dict THEN Append(dict[val], i) ELSE <<i>>)
        ELSE dict[k]]

EmptyDict == [k \in {} |-> <<>>]

\* for i in 0..input_len_u64 { .. }: stops at the first cell that is no integer.
RECURSIVE scan_input(_, _, _, _, _, _)
scan_input(mem, input_ptr, n, i, output, dict) ==
    IF i >= n THEN [ok |-> TRUE, output |-> output, positions_dict |-> dict]
    ELSE LET val == get_integer(mem, input_ptr, i) IN
         IF ~val.ok THEN [ok |-> FALSE, output |-> output, positions_dict |-> dict]
         ELSE scan_input(mem, input_ptr, n, i + 1,
                         insert_sorted(output, val.v), push_position(dict, val.v, i))

\* Faulty variant: every multiplicity taken from the first output value's position list.
multiplicities_of_first(output, dict) == [k \in 1..Len(output) |-> Len(dict[output[1]])]

\* for k in output.iter() { multiplicities.push(positions_dict[k].len()) }
multiplicities_of(output, dict) == [k \in 1..Len(output) |-> Len(dict[output[k]])]

\* Faulty variant: one segment added, and handed out for both sequences.
write_regions_shared(mem, output, multiplicities) ==
    LET seg1 == segments_add(mem) IN
    [mem |-> insert_all(seg1.mem, seg1.base, output),
     output_base |-> seg1.base, multiplicities_base |-> seg1.base]

\* segments.add twice, then every element of output and of multiplicities
\* inserted at its index from the base of its segment.
write_regions(mem, output, multiplicities) ==
    LET seg1 == segments_add(mem)
        seg2 == segments_add(seg1.mem)
    IN [mem |-> insert_all(insert_all(seg2.mem, seg1.base, output), seg2.base, multiplicities),
        output_base |-> seg1.base, multiplicities_base |-> seg2.base]

RtOff == [on |-> FALSE, i |-> 0, j |-> 0]
RtStart == [on |-> TRUE, i |-> 1, j |-> 0]

Running == err = NoError

\* Faulty variant: the (still empty) positions_dict stored before the scan, so that
\* an early return leaves it in the scope.
usort_body_fails_stored(e) ==
    /\ err' = e
    /\ rt' = RtOff
    /\ scopes' = assign_or_update_variable(scopes, "positions_dict",
                                          PyDictBigIntListU64(EmptyDict))
    /\ UNCHANGED <<memory, written, built, walked>>

\* return Err(..) / `?` on lines 36-68: nothing was stored, allocated or written yet.
usort_body_fails(e) ==
    /\ err' = e
    /\ rt' = RtOff
    /\ UNCHANGED <<scopes, memory, written, built, walked>>

usort_body(input_cell, len_cell, d_len, d_out, d_mul) ==
    /\ Running
    /\ ~built
    /\ hint' = "usort_body"
    /\ IF input_cell.kind # "Rel"
       THEN /\ ids' = [ids EXCEPT !.input = input_cell]
            /\ usort_body_fails(MemoryError)
       ELSE IF len_cell.kind # "Int"
       THEN /\ ids' = [ids EXCEPT !.input = input_cell, !.input_len = len_cell]
            /\ usort_body_fails(MemoryError)
       ELSE
       LET usort_max_size == get_u64(scopes, "usort_max_size")
           input_len == len_cell.v
           input_len_u64 == to_u64(input_len)
       IN
       IF ~input_len_u64.some
       THEN /\ ids' = [ids EXCEPT !.input = input_cell, !.input_len = len_cell]
            /\ usort_body_fails(BigintToUsizeFail)
       ELSE IF size_exceeded(usort_max_size, input_len_u64.v)
       THEN /\ ids' = [ids EXCEPT !.input = input_cell, !.input_len = len_cell]
            /\ usort_body_fails(UsortOutOfRange(usort_max_size.v, input_len))
       ELSE
       LET scan == scan_input(memory, input_cell, input_len_u64.v, 0, <<>>, EmptyDict) IN
       IF ~scan.ok
       THEN /\ ids' = [ids EXCEPT !.input = input_cell, !.input_len = len_cell]
            /\ usort_body_fails(MemoryError)
       ELSE
       LET output == scan.output
           multiplicities == multiplicities_of(output, scan.positions_dict)
           regions == write_regions(memory, output, multiplicities)
           output_base == regions.output_base
           multiplicities_base == regions.multiplicities_base
           output_len == IntCell(Len(output))
           w1 == insertable(d_len, output_len)
           w2 == w1 /\ insertable(d_out, output_base)
           w3 == w2 /\ insertable(d_mul, multiplicities_base)
       IN
       /\ scopes' = assign_or_update_variable(scopes, "positions_dict",
                                             PyDictBigIntListU64(scan.positions_dict))
       /\ memory' = regions.mem
       /\ ids' = [ids EXCEPT !.input = input_cell, !.input_len = len_cell,
                             !.output_len = d_len,
                             !.output = IF w1 THEN d_out ELSE @,
                             !.multiplicities = IF w2 THEN d_mul ELSE @]
       /\ written' = [written EXCEPT !.output_len = IF w1 THEN output_len ELSE @,
                                     !.output = IF w2 THEN output_base ELSE @,
                                     !.multiplicities = IF w3 THEN multiplicities_base ELSE @]
       /\ err' = IF w3 THEN NoError ELSE MemoryError
       /\ built' = w3
       /\ rt' = IF w3 THEN RtStart ELSE RtOff
       /\ UNCHANGED walked

(***************************************************************************)
(* The caller's loop, as a monitor: for every output value in order,       *)
(* verify_usort, then multiplicities[i] times verify_multiplicity_body     *)
(* (each with a next_item_index cell not written yet), then                *)
(* verify_multiplicity_assert.  rt.on says that every call since the       *)
(* Ok(()) of usort_body was the next call of that loop; rt.i is the index  *)
(* of the current output value, rt.j the calls made for it.                *)
(***************************************************************************)
OutputRegion == memory[written.output.seg]

MultiplicitiesRegion == memory[written.multiplicities.seg]

rt_verify(r, value_cell) ==
    IF /\ r.on /\ r.j = 0 /\ r.i <= Len(OutputRegion)
       /\ value_cell = IntCell(OutputRegion[r.i])
    THEN [r EXCEPT !.j = 1] ELSE RtOff

rt_walk(r, dest) ==
    IF /\ r.on /\ r.i <= Len(OutputRegion)
       /\ r.j >= 1 /\ r.j <= MultiplicitiesRegion[r.i]
       /\ dest = Unset
    THEN [r EXCEPT !.j = r.j + 1] ELSE RtOff

rt_assert(r) ==
    IF /\ r.on /\ r.i <= Len(OutputRegion)
       /\ r.j = MultiplicitiesRegion[r.i] + 1
    THEN [on |-> TRUE, i |-> r.i + 1, j |-> 0] ELSE RtOff

(***************************************************************************)
(* usort_enter_scope                                                       *)
(***************************************************************************)
\* Faulty variant: the new frame seeded without the enclosing cap.
inherited_max_size_dropped(sc) == PyNone

\* .get_u64("usort_max_size").map_or(PyValueType::None, PyValueType::U64)
inherited_max_size(sc) ==
    LET r == get_u64(sc, "usort_max_size") IN IF r.ok THEN PyU64(r.v) ELSE PyNone

usort_enter_scope ==
    /\ Running
    /\ ~built
    /\ Len(scopes) < MaxDepth
    /\ hint' = "usort_enter_scope"
    /\ scopes' = enter_scope(scopes, [k \in {"usort_max_size"} |-> inherited_max_size(scopes)])
    /\ err' = NoError
    /\ rt' = RtOff
    /\ UNCHANGED <<memory, ids, written, built, walked>>

(***************************************************************************)
(* verify_usort                                                            *)
(***************************************************************************)
\* Faulty variant: the entry read with get, and left in the map.
remove_entry_kept(dict, value) ==
    IF value \in DOMAIN dict
    THEN [some |-> TRUE, v |-> dict[value], rest |-> dict]
    ELSE [some |-> FALSE, rest |-> dict]

\* Faulty variant: an absent entry read as an empty position list (unwrap_or_default).
remove_entry_or_default(dict, value) ==
    IF value \in DOMAIN dict
    THEN [some |-> TRUE, v |-> dict[value],
          rest |-> [k \in (DOMAIN dict) \ {value} |-> dict[k]]]
    ELSE [some |-> TRUE, v |-> <<>>, rest |-> dict]

\* Faulty variant: the map taken out of the scope for the lookup and put back only
\* on a hit, so that a miss leaves it empty.
remove_entry_cleared(dict, value) ==
    IF value \in DOMAIN dict
    THEN [some |-> TRUE, v |-> dict[value],
          rest |-> [k \in (DOMAIN dict) \ {value} |-> dict[k]]]
    ELSE [some |-> FALSE, rest |-> [k \in {} |-> <<>>]]

\* HashMap::remove(&value): the entry removed, if there was one, and the map left.
remove_entry(dict, value) ==
    IF value \in DOMAIN dict
    THEN [some |-> TRUE, v |-> dict[value],
          rest |-> [k \in (DOMAIN dict) \ {value} |-> dict[k]]]
    ELSE [some |-> FALSE, rest |-> dict]

\* Faulty variant: the position list stored without .rev().
rev_missing(list) == list

\* .into_iter().rev().collect()
rev(list) == [k \in 1..Len(list) |-> list[Len(list) + 1 - k]]

\* Faulty variant: last_pos kept from the previous value's walk when there is one.
kept_last_pos ==
    IF "last_pos" \in DOMAIN Local(scopes) THEN Local(scopes)["last_pos"].v ELSE 0

\* exec_scopes_proxy.insert_int("last_pos", bigint!(0))
initial_last_pos == 0

verify_usort(value_cell) ==
    /\ Running
    /\ hint' = "verify_usort"
    /\ ids' = [ids EXCEPT !.value = value_cell]
    /\ rt' = rt_verify(rt, value_cell)
    /\ UNCHANGED <<memory, written, built, walked>>
    /\ IF value_cell.kind # "Int"
       THEN /\ err' = MemoryError
            /\ UNCHANGED scopes
       ELSE
       LET value == value_cell.v
           dict == get_typed(scopes, "positions_dict", "DictBigIntListU64")
       IN
       IF ~dict.ok
       THEN /\ err' = VariableNotInScopeError("positions_dict")
            /\ UNCHANGED scopes
       ELSE
       LET removed == remove_entry(dict.v, value) IN
       IF ~removed.some
       THEN /\ err' = UnexpectedPositionsDictFail
            /\ scopes' = assign_or_update_variable(scopes, "positions_dict",
                              PyDictBigIntListU64(removed.rest))
       ELSE
       LET positions == rev(removed.v)
           taken == assign_or_update_variable(scopes, "positions_dict",
                        PyDictBigIntListU64(removed.rest))
           assigned == assign_or_update_variable(taken, "positions", PyListU64(positions))
       IN
       /\ scopes' = assign_or_update_variable(assigned, "last_pos", PyBigInt(initial_last_pos))
       /\ err' = NoError

(***************************************************************************)
(* verify_multiplicity_assert                                              *)
(***************************************************************************)
\* Faulty variant: one position left over is let through.
assert_result_lenient(positions_len) ==
    IF positions_len <= 1 THEN NoError ELSE PositionsLengthNotZero

\* if positions_len == 0 { Ok(()) } else { Err(PositionsLengthNotZero) }
assert_result(positions_len) ==
    IF positions_len = 0 THEN NoError ELSE PositionsLengthNotZero

verify_multiplicity_assert ==
    /\ Running
    /\ hint' = "verify_multiplicity_assert"
    /\ rt' = rt_assert(rt)
    /\ UNCHANGED <<scopes, memory, ids, written, built, walked>>
    /\ LET positions == get_typed(scopes, "positions", "ListU64") IN
       err' = IF ~positions.ok THEN VariableNotInScopeError("positions")
              ELSE assert_result(Len(positions.v))

(***************************************************************************)
(* verify_multiplicity_body                                                *)
(***************************************************************************)
\* Faulty variant: the last position left is never handed out.
vec_pop_early(list) ==
    IF Len(list) <= 1 THEN [some |-> FALSE]
    ELSE [some |-> TRUE, v |-> list[Len(list)], rest |-> SubSeq(list, 1, Len(list) - 1)]

\* Vec::pop: the last element, and the rest.
vec_pop(list) ==
    IF list = <<>> THEN [some |-> FALSE]
    ELSE [some |-> TRUE, v |-> list[Len(list)], rest |-> SubSeq(list, 1, Len(list) - 1)]

\* bigint!(current_pos) - exec_scopes_proxy.get_int("last_pos")?
pos_diff_of(current_pos, last_pos) == current_pos - last_pos

\* Faulty variant: last_pos set to the position itself.
next_last_pos_same(current_pos) == current_pos

\* bigint!(current_pos + 1)
next_last_pos(current_pos) == current_pos + 1

verify_multiplicity_body(dest) ==
    /\ Running
    /\ hint' = "verify_multiplicity_body"
    /\ rt' = rt_walk(rt, dest)
    /\ UNCHANGED <<memory, built>>
    /\ LET positions == get_typed(scopes, "positions", "ListU64") IN
       IF ~positions.ok
       THEN /\ err' = VariableNotInScopeError("positions")
            /\ UNCHANGED <<scopes, ids, written, walked>>
       ELSE
       LET popped == vec_pop(positions.v) IN
       IF ~popped.some
       THEN /\ err' = CouldntPopPositions
            /\ UNCHANGED <<scopes, ids, written, walked>>
       ELSE
       LET current_pos == popped.v
           after_pop == assign_or_update_variable(scopes, "positions", PyListU64(popped.rest))
           last_pos == get_typed(after_pop, "last_pos", "BigInt")
       IN
       IF ~last_pos.ok
       THEN /\ err' = VariableNotInScopeError("last_pos")
            /\ scopes' = after_pop
            /\ UNCHANGED <<ids, written, walked>>
       ELSE
       LET pos_diff == pos_diff_of(current_pos, last_pos.v) IN
       IF ~insertable(dest, IntCell(pos_diff))
       THEN /\ err' = MemoryError
            /\ scopes' = after_pop
            /\ ids' = [ids EXCEPT !.next_item_index = dest]
            /\ UNCHANGED <<written, walked>>
       ELSE
       /\ err' = NoError
       /\ scopes' = assign_or_update_variable(after_pop, "last_pos",
                                             PyBigInt(next_last_pos(current_pos)))
       /\ ids' = [ids EXCEPT !.next_item_index = dest]
       /\ written' = [written EXCEPT !.next_item_index = IntCell(pos_diff)]
       /\ walked' = walked \cup {[value |-> ids.value.v, pos |-> current_pos,
                                    gap |-> pos_diff]}

(***************************************************************************)
(* The run                                                                 *)
(***************************************************************************)
InitialFrames == {EmptyFrame} \cup {[k \in {"usort_max_size"} |-> PyU64(c)] : c \in 0..MaxCap}

Init ==
    /\ scopes \in {<<f>> : f \in InitialFrames}
    /\ memory \in {<<s>> : s \in BSeq(Values, MaxLen)}
    /\ ids = NoIds
    /\ written = NoWritten
    /\ err = NoError
    /\ hint = "none"
    /\ built = FALSE
    /\ walked = {}
    /\ rt = RtOff

InputCells == {Unset, RelCell(InputSegment, 0)}

LenCells == {Unset} \cup {IntCell(n) : n \in BigIntsNear(Len(memory[InputSegment]))}

ValueCells(V) == {Unset} \cup {IntCell(v) : v \in V}

Next ==
    \/ usort_enter_scope
    \/ \E input_cell \in InputCells, len_cell \in LenCells, d_len, d_out, d_mul \in DestCells :
          usort_body(input_cell, len_cell, d_len, d_out, d_mul)
    \/ \E value_cell \in ValueCells(Values) : verify_usort(value_cell)
    \/ verify_multiplicity_assert
    \/ \E dest \in DestCells : verify_multiplicity_body(dest)

Spec == Init /\ [][Next]_vars

(***************************************************************************)
(* The documented scenarios: Input [3,1,3] without a cap, Input [5] with   *)
(* usort_max_size = 1.                                                     *)
(***************************************************************************)
ScenarioValues == {1, 3, 5}

InitScenario ==
    /\ \/ scopes = <<EmptyFrame>> /\ memory = << <<3, 1, 3>> >>
       \/ scopes = <<[k \in {"usort_max_size"} |-> PyU64(1)]>> /\ memory = << <<5>> >>
    /\ ids = NoIds
    /\ written = NoWritten
    /\ err = NoError
    /\ hint = "none"
    /\ built = FALSE
    /\ walked = {}
    /\ rt = RtOff

NextScenario ==
    \/ usort_enter_scope
    \/ \E input_cell \in InputCells, len_cell \in LenCells, d_len, d_out, d_mul \in DestCells :
          usort_body(input_cell, len_cell, d_len, d_out, d_mul)
    \/ \E value_cell \in ValueCells(ScenarioValues) : verify_usort(value_cell)
    \/ verify_multiplicity_assert
    \/ \E dest \in DestCells : verify_multiplicity_body(dest)

SpecScenario == InitScenario /\ [][NextScenario]_vars

(***************************************************************************)
(* What the properties read                                                *)
(***************************************************************************)
\* The length read for input_len by the latest usort_body, as a BigInt.
N == ids.input_len.v

\* The Input Sequence: the N cells from ids.input on.
InputSequence == SubSeq(memory[ids.input.seg], ids.input.off + 1, ids.input.off + N.lo)

InputValues == {InputSequence[k] : k \in 1..Len(InputSequence)}

\* The 0-based indices at which v occurs in the Input Sequence.
Occurrences(v) == {k - 1 : k \in {j \in 1..Len(InputSequence) : InputSequence[j] = v}}

Min(S) == CHOOSE x \in S : \A y \in S : x <= y

Max(S) == CHOOSE x \in S : \A y \in S : x >= y

RECURSIVE Sum(_)
Sum(s) == IF s = <<>> THEN 0 ELSE s[1] + Sum(Tail(s))

\* The Size Cap of the current scope.
CapPresent(sc) == "usort_max_size" \in DOMAIN Local(sc) /\ Local(sc)["usort_max_size"].kind = "U64"

Cap(sc) == Local(sc)["usort_max_size"].v

\* N > cap, for a BigInt N and a u64 cap.
Exceeds(n, cap) == n.hi > 0 \/ n.lo > cap

\* The Position Witness, the cursor's position list and the last-position counter.
HasWitness(sc) == "positions_dict" \in DOMAIN Local(sc)

Witness(sc) == Local(sc)["positions_dict"].v

HasCursor(sc) == "positions" \in DOMAIN Local(sc)

Cursor(sc) == Local(sc)["positions"].v

LastPos(sc) == Local(sc)["last_pos"].v

\* The multiplicity the Builder wrote for the output value v.
MultiplicityOf(v) ==
    MultiplicitiesRegion[CHOOSE i \in 1..Len(OutputRegion) : OutputRegion[i] = v]

\* The Walker calls that returned Ok(()) for the value v.
Walks(w, v) == {e \in w : e.value = v}

\* usort_body read its input pointer and its length.
BodyReadLength == hint = "usort_body" /\ ids.input.kind = "Rel" /\ ids.input_len.kind = "Int"

(***************************************************************************)
(* Properties                                                              *)
(***************************************************************************)
\* C1 as stated: for every input length N, usort_body fails with
\* UsortOutOfRange(cap, N) whenever a cap is present and N > cap, and never fails
\* with UsortOutOfRange otherwise.
C1_AsStated ==
    BodyReadLength =>
        IF CapPresent(scopes) /\ Exceeds(N, Cap(scopes))
        THEN err = UsortOutOfRange(Cap(scopes), N)
        ELSE err.kind # "UsortOutOfRange"

\* C1, amended: for every input length N that fits a u64, usort_body fails with
\* UsortOutOfRange(cap, N) whenever a cap is present in the current scope and
\* N > cap, and never fails with UsortOutOfRange when N <= cap or no cap is
\* present; for an N that does not fit a u64 it fails with BigintToUsizeFail,
\* cap or no cap.
C1_SizeExceeded ==
    BodyReadLength =>
        IF N.hi # 0 THEN err = BigintToUsizeFail
        ELSE IF CapPresent(scopes) /\ N.lo > Cap(scopes)
        THEN err = UsortOutOfRange(Cap(scopes), N)
        ELSE err.kind # "UsortOutOfRange"

C1_Witness ==
    /\ BodyReadLength
    /\ err.kind = "UsortOutOfRange"
    /\ err.len.lo = err.cap + 1

\* C2: after an Ok(()) of usort_body the output region is strictly ascending,
\* holds exactly the values of the Input Sequence, and output_len is the number
\* of distinct input values.
C2_SortedDistinctOutput ==
    built =>
        /\ \A i, j \in 1..Len(OutputRegion) : i < j => OutputRegion[i] < OutputRegion[j]
        /\ {OutputRegion[i] : i \in 1..Len(OutputRegion)} = InputValues
        /\ written.output_len = IntCell(Cardinality(InputValues))
        /\ Len(OutputRegion) = Cardinality(InputValues)

C2_Witness ==
    /\ built
    /\ Len(OutputRegion) >= 2
    /\ Len(InputSequence) > Len(OutputRegion)
    /\ InputSequence[1] > InputSequence[2]

\* C3: after an Ok(()) of usort_body the multiplicities region is parallel to the
\* output region, multiplicities[i] is the number of occurrences of output[i] in
\* the Input Sequence, and the multiplicities sum to N.
C3_Multiplicities ==
    built =>
        /\ Len(MultiplicitiesRegion) = Len(OutputRegion)
        /\ \A i \in 1..Len(OutputRegion) :
              MultiplicitiesRegion[i] = Cardinality(Occurrences(OutputRegion[i]))
        /\ Sum(MultiplicitiesRegion) = N.lo

C3_Witness ==
    /\ built
    /\ \E i, j \in 1..Len(MultiplicitiesRegion) :
          MultiplicitiesRegion[i] = 1 /\ MultiplicitiesRegion[j] >= 2

\* C4: while every call since the Ok(()) of usort_body is the next call of the
\* caller's loop (verify_usort on the output values in order, each followed by
\* multiplicities[i] calls of verify_multiplicity_body and then
\* verify_multiplicity_assert), no call fails; when the loop is through, the
\* Position Witness has no entry left and the cursor's position list is empty.
C4_RoundTrip ==
    rt.on =>
        /\ err = NoError
        /\ (rt.i = Len(OutputRegion) + 1) =>
              /\ DOMAIN Witness(scopes) = {}
              /\ HasCursor(scopes) => Cursor(scopes) = <<>>
              /\ (Len(OutputRegion) > 0) => HasCursor(scopes)

C4_Witness ==
    /\ rt.on
    /\ rt.i = Len(OutputRegion) + 1
    /\ Len(OutputRegion) >= 2
    /\ Len(InputSequence) > Len(OutputRegion)
    /\ hint = "verify_multiplicity_assert"

\* C5: verify_usort, called on a Position Witness without an entry for the value
\* presented, fails with UnexpectedPositionsDictFail and creates no cursor; called
\* on one with the entry it succeeds and removes the entry; no entry ever comes
\* back, so a second verify_usort for the same value fails.
C5_MissingWitnessEntry ==
    [][ /\ (hint' = "verify_usort" /\ ids'.value.kind = "Int" /\ HasWitness(scopes)) =>
              IF ids'.value.v \notin DOMAIN Witness(scopes)
              THEN err' = UnexpectedPositionsDictFail /\ scopes' = scopes
              ELSE err' = NoError /\ ids'.value.v \notin DOMAIN Witness(scopes')
        /\ HasWitness(scopes) =>
              /\ HasWitness(scopes')
              /\ (DOMAIN Witness(scopes')) \subseteq (DOMAIN Witness(scopes))
      ]_vars

C5_Witness ==
    /\ hint = "verify_usort"
    /\ err = UnexpectedPositionsDictFail
    /\ ids.value.v \in InputValues
    /\ Walks(walked, ids.value.v) # {}

\* C6: verify_multiplicity_assert succeeds exactly when the cursor's position list
\* is empty: after verify_usort for a value and fewer Ok(()) calls of
\* verify_multiplicity_body than its multiplicity it fails with
\* PositionsLengthNotZero, after exactly that many it succeeds.
C6_Exhaustion ==
    (hint = "verify_multiplicity_assert") =>
        /\ (err = NoError) <=> (HasCursor(scopes) /\ Cursor(scopes) = <<>>)
        /\ HasCursor(scopes) =>
              LET k == Cardinality(Walks(walked, ids.value.v))
                  m == MultiplicityOf(ids.value.v)
              IN /\ k <= m
                 /\ (k < m) => (err = PositionsLengthNotZero)
                 /\ (k = m) => (err = NoError)

C6_Witness ==
    /\ hint = "verify_multiplicity_assert"
    /\ err = PositionsLengthNotZero
    /\ Walks(walked, ids.value.v) # {}

\* C7: after verify_usort for a value v, a call of verify_multiplicity_body made
\* after fewer than multiplicities[v] Ok(()) calls succeeds (its next_item_index
\* cell not written before), and the call made after multiplicities[v] of them
\* fails with CouldntPopPositions.
C7_Overflow ==
    [][ (hint' = "verify_multiplicity_body" /\ HasCursor(scopes)) =>
            LET v == ids.value.v
                k == Cardinality(Walks(walked, v))
                m == MultiplicityOf(v)
            IN /\ (k < m /\ ids'.next_item_index = Unset) =>
                     /\ err' = NoError
                     /\ Cardinality(Walks(walked', v)) = k + 1
               /\ (k >= m) => (err' = CouldntPopPositions)
      ]_vars

C7_Witness ==
    /\ hint = "verify_multiplicity_body"
    /\ err = CouldntPopPositions
    /\ Cardinality(Walks(walked, ids.value.v)) >= 2

\* C8: verify_usort resets last_pos to 0; every Ok(()) call of
\* verify_multiplicity_body writes to next_item_index the position it popped minus
\* last_pos as it was before the call and leaves last_pos at that position plus
\* one; the first gap written after verify_usort for a value is the value's first
\* position in the Input Sequence.
C8_Gaps ==
    [][ /\ (hint' = "verify_usort" /\ err' = NoError) => (LastPos(scopes') = 0)
        /\ (walked' # walked) =>
              LET v == ids.value.v
                  p == Cursor(scopes)[Len(Cursor(scopes))]
                  gap == p - LastPos(scopes)
              IN /\ Cursor(scopes) = Cursor(scopes') \o <<p>>
                 /\ walked' = walked \cup {[value |-> v, pos |-> p, gap |-> gap]}
                 /\ written'.next_item_index = IntCell(gap)
                 /\ LastPos(scopes') = p + 1
                 /\ (Walks(walked, v) = {}) => (gap = Min(Occurrences(v)))
      ]_vars

C8_Witness ==
    /\ hint = "verify_multiplicity_body"
    /\ err = NoError
    /\ \E e, f \in walked :
          /\ e.value = ids.value.v
          /\ f.value # e.value
          /\ Walks(walked, e.value) = {e}
          /\ e.gap = Min(Occurrences(e.value))
          /\ e.gap > 0

\* The position of e.value next below e.pos in the Input Sequence.
Previous(e) == Max({q \in Occurrences(e.value) : q < e.pos})

NotFirst(e) == e.pos # Min(Occurrences(e.value))

\* C9 as stated: each gap written after the first one for a value is
\* position[i] - position[i-1].
C9_AsStated ==
    \A e \in walked : NotFirst(e) => (e.gap = e.pos - Previous(e))

\* C9, amended: for a value at the ascending positions p0 < p1 < ..., each gap
\* written after the first is position[i] - position[i-1] - 1.
C9_LaterGaps ==
    \A e \in walked : NotFirst(e) => (e.gap = e.pos - Previous(e) - 1)

C9_Witness ==
    \E e \in walked : NotFirst(e) /\ e.gap > 0

\* C10: for Input [3,1,3] without a cap usort_body writes Output [1,3] and
\* Multiplicities [1,2]; the gap written for the value 1 is 1, and the gaps
\* written for the value 3 are 0 (position 0) and then 1 (position 2).
C10_Scenario ==
    (built /\ InputSequence = <<3, 1, 3>> /\ ~CapPresent(scopes)) =>
        /\ OutputRegion = <<1, 3>>
        /\ MultiplicitiesRegion = <<1, 2>>
        /\ written.output_len = IntCell(2)
        /\ Walks(walked, 1) \subseteq {[value |-> 1, pos |-> 1, gap |-> 1]}
        /\ Walks(walked, 3) \in {{}, {[value |-> 3, pos |-> 0, gap |-> 0]},
                                 {[value |-> 3, pos |-> 0, gap |-> 0],
                                  [value |-> 3, pos |-> 2, gap |-> 1]}}

C10_Witness ==
    /\ built /\ InputSequence = <<3, 1, 3>> /\ ~CapPresent(scopes)
    /\ Cardinality(walked) = 3
    /\ ids.value = IntCell(3)
    /\ written.next_item_index = IntCell(1)
    /\ hint = "verify_multiplicity_body"

\* usort_body ran on the Input [5] with length 1 under usort_max_size = 1.
ScenarioFive ==
    /\ ids.input.kind = "Rel" /\ ids.input_len = IntCell([hi |-> 0, lo |-> 1])
    /\ memory[ids.input.seg] = <<5>>
    /\ CapPresent(scopes) /\ Cap(scopes) = 1

\* The cells usort_body was given for its three named outputs were not written before.
FreshOutputCells ==
    ids.output_len = Unset /\ ids.output = Unset /\ ids.multiplicities = Unset

\* C11 as stated: for Input [5] of length 1 with cap 1 usort_body writes Output [5]
\* and Multiplicities [1], and the gap written for the value 5 is 5.
C11_AsStated ==
    (built /\ ScenarioFive) =>
        /\ OutputRegion = <<5>>
        /\ MultiplicitiesRegion = <<1>>
        /\ Walks(walked, 5) \subseteq {[value |-> 5, pos |-> 0, gap |-> 5]}

\* C11, amended: for Input [5] of length 1 with cap 1 usort_body succeeds and writes
\* Output [5] and Multiplicities [1]; the gap written for the value 5 is 0 (its
\* position), and verify_multiplicity_assert after that call succeeds.
C11_Scenario ==
    /\ (hint = "usort_body" /\ ScenarioFive /\ FreshOutputCells) => built
    /\ (built /\ ScenarioFive) =>
          /\ OutputRegion = <<5>>
          /\ MultiplicitiesRegion = <<1>>
          /\ written.output_len = IntCell(1)
          /\ Walks(walked, 5) \subseteq {[value |-> 5, pos |-> 0, gap |-> 0]}
          /\ (hint = "verify_multiplicity_assert" /\ Walks(walked, 5) # {}) => (err = NoError)

C11_Witness ==
    /\ built /\ ScenarioFive
    /\ walked = {[value |-> 5, pos |-> 0, gap |-> 0]}
    /\ hint = "verify_multiplicity_assert"
    /\ err = NoError
    /\ rt.on

\* The frame usort_enter_scope pushes on the scopes sc.
SeededFrame(sc) ==
    [k \in {"usort_max_size"} |-> IF CapPresent(sc) THEN PyU64(Cap(sc)) ELSE PyNone]

\* C12: usort_enter_scope never fails and only pushes one frame: the new frame
\* holds usort_max_size, with the enclosing scope's cap when that is set and None
\* when it is not; the enclosing frames, the memory and the named outputs stay as
\* they were; usort_body run in the new frame fails with UsortOutOfRange exactly
\* when the enclosing cap is set and a length that fits a u64 exceeds it.
C12_ScopeSetup ==
    [][ /\ (hint' = "usort_enter_scope") =>
              /\ err' = NoError
              /\ scopes' = Append(scopes, SeededFrame(scopes))
              /\ UNCHANGED <<memory, written, walked, built>>
        /\ (hint' = "usort_body" /\ hint = "usort_enter_scope"
              /\ ids'.input.kind = "Rel" /\ ids'.input_len.kind = "Int"
              /\ ids'.input_len.v.hi = 0) =>
              LET outer == SubSeq(scopes, 1, Len(scopes) - 1)
                  len == ids'.input_len.v
              IN IF CapPresent(outer) /\ len.lo > Cap(outer)
                 THEN err' = UsortOutOfRange(Cap(outer), len)
                 ELSE err'.kind # "UsortOutOfRange"
      ]_vars

C12_Witness ==
    /\ hint = "usort_body"
    /\ Len(scopes) >= 2
    /\ err.kind = "UsortOutOfRange"
    /\ err.cap = 1

\* The positions of v that verify_multiplicity_body has handed out, in w.
WalkedPositions(w, v) == {e.pos : e \in Walks(w, v)}

\* C13: after verify_usort for a value, every verify_multiplicity_body call that
\* pops a position pops the smallest position of the value not popped yet: the
\* k-th call consumes the k-th smallest original position, in ascending order.
C13_AscendingPops ==
    [][ (hint' = "verify_multiplicity_body" /\ HasCursor(scopes)
           /\ Cursor(scopes') # Cursor(scopes)) =>
            LET v == ids.value.v
                p == Cursor(scopes)[Len(Cursor(scopes))]
                left == Occurrences(v) \ WalkedPositions(walked, v)
            IN /\ Cursor(scopes) = Cursor(scopes') \o <<p>>
               /\ p = Min(left)
               /\ \A q \in WalkedPositions(walked, v) : q < p
               /\ Cardinality({q \in Occurrences(v) : q <= p}) =
                     Cardinality(Walks(walked, v)) + 1
      ]_vars

C13_Witness ==
    /\ hint = "verify_multiplicity_body"
    /\ err = NoError
    /\ WalkedPositions(walked, ids.value.v) = {0, 2}

\* The elements of the sequence s.
Range(s) == {s[k] : k \in 1..Len(s)}

\* C14: right after an Ok(()) of usort_body the Position Witness has an entry
\* exactly for the values of the output region; the entry of output[i] lists
\* multiplicities[i] positions, all below N, in strictly ascending order; the
\* lists of different values are disjoint and together cover 0..N-1.
C14_PositionWitness ==
    (hint = "usort_body" /\ built) =>
        LET dict == Witness(scopes) IN
        /\ HasWitness(scopes)
        /\ DOMAIN dict = Range(OutputRegion)
        /\ \A i \in 1..Len(OutputRegion) :
              LET list == dict[OutputRegion[i]] IN
              /\ Len(list) = MultiplicitiesRegion[i]
              /\ \A k \in 1..Len(list) : list[k] \in 0..(N.lo - 1)
              /\ \A k, l \in 1..Len(list) : (k < l) => (list[k] < list[l])
        /\ \A v, w \in DOMAIN dict : (v # w) => (Range(dict[v]) \cap Range(dict[w]) = {})
        /\ UNION {Range(dict[v]) : v \in DOMAIN dict} = 0..(N.lo - 1)

C14_Witness ==
    /\ hint = "usort_body" /\ built
    /\ \E v, w \in DOMAIN Witness(scopes) :
          Len(Witness(scopes)[v]) >= 2 /\ Witness(scopes)[w] = <<1>>

\* verify_usort is called while the cursor still holds positions.
CursorUnconsumed(sc) == HasCursor(sc) /\ Cursor(sc) # <<>>

\* C15 as stated: a verify_usort call does not replace a cursor that still holds
\* unconsumed positions.
C15_AsStated ==
    [][ (hint' = "verify_usort" /\ CursorUnconsumed(scopes)) =>
            (Cursor(scopes') = Cursor(scopes))
      ]_vars

\* C15, amended: in the caller's loop the cursor's position list is empty (or there
\* is no cursor yet) whenever verify_usort is called for the next value; verify_usort
\* itself does not look at the cursor: called for a value with a Position Witness
\* entry it succeeds and replaces the cursor by that entry reversed, with last_pos
\* 0, also when the cursor still holds unconsumed positions.
C15_CursorReplaced ==
    [][ (hint' = "verify_usort") =>
            /\ rt'.on => ~CursorUnconsumed(scopes)
            /\ (HasWitness(scopes) /\ ids'.value.kind = "Int"
                  /\ ids'.value.v \in DOMAIN Witness(scopes)) =>
                  LET entry == Witness(scopes)[ids'.value.v] IN
                  /\ err' = NoError
                  /\ Len(Cursor(scopes')) = Len(entry)
                  /\ \A k \in 1..Len(entry) :
                        Cursor(scopes')[k] = entry[Len(entry) + 1 - k]
                  /\ LastPos(scopes') = 0
      ]_vars

\* verify_usort has just replaced a cursor: some other value was verified before
\* and not all of its positions were handed out.
C15_Witness ==
    /\ hint = "verify_usort"
    /\ err = NoError
    /\ Len(Cursor(scopes)) >= 2
    /\ \E u \in InputValues :
          /\ u # ids.value.v
          /\ u \notin DOMAIN Witness(scopes)
          /\ Cardinality(Walks(walked, u)) < MultiplicityOf(u)

\* C16: the Ok(()) of usort_body leaves the output and the multiplicities in two
\* different segments that did not exist before, from offset 0, without touching
\* the segments that did; after that no call changes the memory or the two bases.
C16_RegionsImmutable ==
    [][ /\ (hint' = "usort_body" /\ built') =>
              /\ written'.output.seg # written'.multiplicities.seg
              /\ written'.output.seg \in (Len(memory) + 1)..Len(memory')
              /\ written'.multiplicities.seg \in (Len(memory) + 1)..Len(memory')
              /\ written'.output.off = 0 /\ written'.multiplicities.off = 0
              /\ SubSeq(memory', 1, Len(memory)) = memory
        /\ built =>
              /\ memory' = memory
              /\ written'.output = written.output
              /\ written'.multiplicities = written.multiplicities
              /\ built'
      ]_vars

C16_Witness ==
    /\ built
    /\ hint = "verify_multiplicity_assert"
    /\ err = NoError
    /\ Cardinality(walked) >= 2
    /\ Len(OutputRegion) >= 2

\* C17: an Ok(()) of verify_usort for v removes the entry of v from the Position
\* Witness and leaves every other entry as it was; no position popped by
\* verify_multiplicity_body was handed out before in the run.
C17_ConsumedOnce ==
    [][ /\ (hint' = "verify_usort" /\ err' = NoError) =>
              LET v == ids'.value.v IN
              /\ v \in DOMAIN Witness(scopes)
              /\ DOMAIN Witness(scopes') = (DOMAIN Witness(scopes)) \ {v}
              /\ \A u \in DOMAIN Witness(scopes') : Witness(scopes')[u] = Witness(scopes)[u]
        /\ (hint' = "verify_multiplicity_body" /\ HasCursor(scopes)
              /\ Cursor(scopes') # Cursor(scopes)) =>
              LET p == Cursor(scopes)[Len(Cursor(scopes))] IN
              /\ p \notin {e.pos : e \in walked}
              /\ (err' = NoError) => (Cardinality(walked') = Cardinality(walked) + 1)
        /\ \A e, f \in walked' : (e.pos = f.pos) => (e = f)
      ]_vars

C17_Witness ==
    /\ hint = "verify_usort"
    /\ err = NoError
    /\ HasWitness(scopes) /\ DOMAIN Witness(scopes) # {}
    /\ walked # {}

\* C18: once verify_usort has succeeded, the cursor's position list is strictly
\* descending from its first to its last element and last_pos is at most every
\* position still in it; every gap written is >= 0.
C18_NonNegativeGaps ==
    HasCursor(scopes) =>
        LET list == Cursor(scopes) IN
        /\ \A k, l \in 1..Len(list) : (k < l) => (list[k] > list[l])
        /\ \A k \in 1..Len(list) : LastPos(scopes) <= list[k]
        /\ \A e \in walked : e.gap >= 0
        /\ (written.next_item_index # Unset) => (written.next_item_index.v >= 0)

C18_Witness ==
    /\ HasCursor(scopes) /\ err = NoError
    /\ Len(Cursor(scopes)) >= 1
    /\ LastPos(scopes) >= 1
    /\ \E e \in walked : e.gap >= 1

\* The cells a usort_body call was given cannot be read as an input of N integers:
\* the pointer, the length, or one of the first N cells of the Input Sequence.
InputUnreadable(cells, mem) ==
    \/ cells.input.kind # "Rel"
    \/ cells.input_len.kind # "Int"
    \/ /\ cells.input_len.v.hi = 0
       /\ \E i \in 0..(cells.input_len.v.lo - 1) : ~get_integer(mem, cells.input, i).ok

\* C19: a usort_body call that fails with UsortOutOfRange, with BigintToUsizeFail or
\* on a read of its input stores no positions_dict (the scopes are as before), adds
\* no segment and writes no cell (the memory is as before) and writes none of
\* output_len, output and multiplicities.
C19_FailedBuilderLeavesState ==
    [][ (/\ hint' = "usort_body"
         /\ \/ err'.kind = "UsortOutOfRange"
            \/ err' = BigintToUsizeFail
            \/ err' = MemoryError /\ InputUnreadable(ids', memory))
        => /\ scopes' = scopes
           /\ ~HasWitness(scopes')
           /\ memory' = memory
           /\ Len(memory') = 1
           /\ written' = written
           /\ written' = NoWritten
           /\ ~built'
      ]_vars

\* usort_body failed on the read of a cell of the Input Sequence that was never written.
C19_Witness ==
    /\ hint = "usort_body"
    /\ err = MemoryError
    /\ ids.input.kind = "Rel" /\ ids.input_len.kind = "Int"
    /\ N.hi = 0 /\ N.lo = Len(memory[InputSegment]) + 1 /\ N.lo >= 2
    /\ ~HasWitness(scopes) /\ Len(memory) = 1 /\ written = NoWritten

\* C20: a verify_usort call that fails with UnexpectedPositionsDictFail and a
\* verify_multiplicity_body call that fails with CouldntPopPositions leave
\* positions_dict, positions and last_pos as they were before the call and write
\* no named output.
C20_FailedCallsLeaveState ==
    [][ (\/ hint' = "verify_usort" /\ err' = UnexpectedPositionsDictFail
         \/ hint' = "verify_multiplicity_body" /\ err' = CouldntPopPositions)
        => /\ HasWitness(scopes') /\ HasWitness(scopes)
           /\ Witness(scopes') = Witness(scopes)
           /\ HasCursor(scopes') = HasCursor(scopes)
           /\ HasCursor(scopes) => /\ Cursor(scopes') = Cursor(scopes)
                                   /\ LastPos(scopes') = LastPos(scopes)
           /\ scopes' = scopes
           /\ written' = written
           /\ memory' = memory
           /\ walked' = walked
      ]_vars

\* verify_multiplicity_body failed on the emptied cursor of a value that occurs more
\* than once, with entries of other values still in positions_dict.
C20_Witness ==
    /\ hint = "verify_multiplicity_body"
    /\ err = CouldntPopPositions
    /\ HasWitness(scopes) /\ Witness(scopes) # EmptyDict
    /\ HasCursor(scopes) /\ Cursor(scopes) = <<>>
    /\ LastPos(scopes) >= 2
    /\ written.next_item_index # Unset

\* verify_usort failed on a value whose entry was gone, with a cursor still holding
\* positions and other entries still in positions_dict.
C20_VerifierCase ==
    /\ hint = "verify_usort"
    /\ err = UnexpectedPositionsDictFail
    /\ HasWitness(scopes) /\ Witness(scopes) # EmptyDict
    /\ HasCursor(scopes) /\ Cursor(scopes) # <<>>

====
